---- MODULE Spec2Model ----
(***************************************************************************)
(* LE Manager (src/app/main.py): a FastAPI front-end that keeps accounts   *)
(* and jobs in SQLite, runs certbot as a subprocess and serves the issued  *)
(* certificate files.                                                      *)
(*                                                                         *)
(* Every request is served by its own worker thread with its own SQLite    *)
(* connection, so handlers interleave at their database statements, their  *)
(* filesystem calls and their subprocess calls.  A handler is modelled as  *)
(* a sequence of steps, one per such call; the Python code between two     *)
(* calls only touches locals and belongs to the step before it.            *)
(***************************************************************************)
EXTENDS Integers, Sequences, FiniteSets, TLC

\* ---------------------------------------------------------------- bounds
\* Worker threads serving requests at the same time.
MaxReqs == 2
\* Rows the jobs table may hold.
MaxJobs == 2
\* Rows the accounts table may hold.
MaxAccounts == 1

Reqs == 1..MaxReqs

\* ------------------------------------------------------- optional values
\* SQL NULL / Python None is the empty tuple, a value v is <<v>>.
None == <<>>
Some(v) == <<v>>

\* ---------------------------------------------------------------- state
VARIABLES
  CRON_TOKEN,   \* the configured cron token, read once at import
  accounts,     \* table accounts: sequence of rows, row i has id i
  jobs,         \* table jobs: sequence of rows, row i has id i
  dirs,         \* account working directories that exist: <<id, name>>
  live,         \* certificate directories under accounts/<id>/config/live
  invoked,      \* calls of run_certbot made so far
  returned,     \* what each of these calls gave, once it has ended
  now,          \* the clock datetime.utcnow() reads; a timestamp stored later
                \* is a later one
  req,          \* per worker thread: the handler it runs and its locals
  last          \* the request answered in the step just taken, with its
                \* response (NoAnswer: the step answered none)

vars == <<CRON_TOKEN, accounts, jobs, dirs, live, invoked, returned, now, req, last>>

\* ------------------------------------------------------------- strings
\* A Python str is a sequence of one-character strings; Str gives the
\* TLA+ string with the same characters.
RECURSIVE Str(_)
Str(s) == IF s = <<>> THEN "" ELSE Head(s) \o Str(Tail(s))

\* str.isspace() for the characters the model uses.
Whitespace == {" ", "\t", "\n"}

\* str.replace(old, new) for one-character old and new.
Replace(s, old, new) == [i \in 1..Len(s) |-> IF s[i] = old THEN new ELSE s[i]]

\* str.split() with no argument: the maximal runs of non-whitespace, in
\* order; cur is the run being read, acc the runs read so far.
RECURSIVE SplitAcc(_, _, _)
SplitAcc(s, cur, acc) ==
  IF s = <<>>
  THEN IF cur = <<>> THEN acc ELSE Append(acc, cur)
  ELSE IF Head(s) \in Whitespace
       THEN SplitAcc(Tail(s), <<>>, IF cur = <<>> THEN acc ELSE Append(acc, cur))
       ELSE SplitAcc(Tail(s), Append(cur, Head(s)), acc)

Split(s) == SplitAcc(s, <<>>, <<>>)

\* str.strip(): leading and trailing whitespace removed.
RECURSIVE LStrip(_)
LStrip(s) == IF s # <<>> /\ Head(s) \in Whitespace THEN LStrip(Tail(s)) ELSE s

RECURSIVE RStrip(_)
RStrip(s) ==
  IF s # <<>> /\ s[Len(s)] \in Whitespace THEN RStrip(SubSeq(s, 1, Len(s) - 1)) ELSE s

Strip(s) == RStrip(LStrip(s))

\* sep.join(parts) for a one-character sep.
RECURSIVE Join(_, _)
Join(parts, sep) ==
  IF parts = <<>> THEN <<>>
  ELSE IF Len(parts) = 1 THEN parts[1]
  ELSE parts[1] \o <<sep>> \o Join(Tail(parts), sep)

\* [f(x) for x in xs if p(x)] with f = strip and p = "strip is non-empty".
RECURSIVE StripNonEmpty(_)
StripNonEmpty(xs) ==
  IF xs = <<>> THEN <<>>
  ELSE IF Strip(Head(xs)) # <<>>
       THEN <<Strip(Head(xs))>> \o StripNonEmpty(Tail(xs))
       ELSE StripNonEmpty(Tail(xs))

\* NormalizeDomains without its replace: the commas are left in.
NormalizeDomainsNoReplace(domains) == StripNonEmpty(Split(domains))

\* Line 178: doms = [d.strip() for d in domains.replace(",", " ").split()
\*                   if d.strip()]
NormalizeDomains(domains) == StripNonEmpty(Split(Replace(domains, ",", " ")))

\* str(n) for a natural number n.
DigitChar == <<"0", "1", "2", "3", "4", "5", "6", "7", "8", "9">>

RECURSIVE IntToStr(_)
IntToStr(n) ==
  IF n < 10 THEN <<DigitChar[n + 1]>>
  ELSE IntToStr(n \div 10) \o <<DigitChar[(n % 10) + 1]>>

\* ----------------------------------------------------------- responses
\* An HTTP response: status code, kind of body, and the body in the field
\* its kind uses (text: a redirect's Location or a text body).
NoResponse ==
  [code |-> 0, kind |-> "none", text |-> "", filename |-> "",
   json |-> None, entries |-> <<>>, ctx |-> None]

RedirectResponse(url, status_code) ==
  [NoResponse EXCEPT !.code = status_code, !.kind = "redirect", !.text = url]

PlainTextResponse(content, status_code, filename) ==
  [NoResponse EXCEPT !.code = status_code, !.kind = "text", !.text = content,
                     !.filename = filename]

JSONResponse(obj, status_code) ==
  [NoResponse EXCEPT !.code = status_code, !.kind = "json", !.json = Some(obj)]

FileResponse(content, filename) ==
  [NoResponse EXCEPT !.code = 200, !.kind = "file", !.text = content,
                     !.filename = filename]

\* A zip archive is the sequence of its <<arcname, content>> entries.
StreamingResponse(z, filename) ==
  [NoResponse EXCEPT !.code = 200, !.kind = "zip", !.entries = z,
                     !.filename = filename]

TemplateResponse(template, context) ==
  [NoResponse EXCEPT !.code = 200, !.kind = "html", !.text = template,
                     !.ctx = Some(context)]

\* -------------------------------------------------------------- routing
\* A URL path is the sequence of its segments.  A route's path is a
\* sequence of literals and parameters.
Lit(s) == [param |-> FALSE, text |-> s]
Param(s) == [param |-> TRUE, text |-> s]

\* The routes in the order the decorators register them on app.
Routes ==
  << [method |-> "GET",  path |-> <<Lit("health")>>, endpoint |-> "health"],
     [method |-> "GET",  path |-> <<>>, endpoint |-> "home"],
     [method |-> "POST", path |-> <<Lit("accounts"), Lit("create")>>,
      endpoint |-> "accounts_create"],
     [method |-> "POST", path |-> <<Lit("certs"), Lit("issue_http")>>,
      endpoint |-> "certs_issue_http"],
     [method |-> "POST", path |-> <<Lit("certs"), Lit("renew_all")>>,
      endpoint |-> "certs_renew_all"],
     [method |-> "GET",  path |-> <<Lit("jobs"), Param("job_id")>>,
      endpoint |-> "job_detail"],
     [method |-> "GET",
      path |-> <<Lit("export"), Param("account_id"), Param("name"), Param("which")>>,
      endpoint |-> "export_file"],
     [method |-> "GET",
      path |-> <<Lit("export"), Param("account_id"), Param("name"), Lit("bundle.zip")>>,
      endpoint |-> "export_bundle_zip"],
     [method |-> "GET",
      path |-> <<Lit("export"), Param("account_id"), Param("name"), Lit("combined.pem")>>,
      endpoint |-> "export_combined_pem"],
     [method |-> "POST", path |-> <<Lit("certs"), Lit("renew_one")>>,
      endpoint |-> "certs_renew_one"],
     [method |-> "GET",  path |-> <<Lit("api"), Lit("cron"), Lit("renew")>>,
      endpoint |-> "api_cron_renew"] >>

\* A parameter matches any one non-empty segment, a literal only itself.
PathMatches(route, path) ==
  /\ Len(route.path) = Len(path)
  /\ \A i \in 1..Len(path) :
       IF route.path[i].param THEN path[i] # "" ELSE path[i] = route.path[i].text

\* Route.matches: NONE, PARTIAL (the path matches, the method does not)
\* or FULL.
Matches(route, method, path) ==
  IF ~PathMatches(route, path) THEN "NONE"
  ELSE IF route.method # method THEN "PARTIAL"
  ELSE "FULL"

\* The index of the first route whose match is m, 0 if there is none.
FirstMatch(method, path, m) ==
  IF \E i \in 1..Len(Routes) : Matches(Routes[i], method, path) = m
  THEN CHOOSE i \in 1..Len(Routes) :
         /\ Matches(Routes[i], method, path) = m
         /\ \A j \in 1..(i - 1) : Matches(Routes[j], method, path) # m
  ELSE 0

\* The router walks the routes in order and hands the request to the first
\* full match; failing that, the first partial match answers 405, and with
\* no match at all the answer is 404.
Dispatch(method, path) ==
  IF FirstMatch(method, path, "FULL") # 0
  THEN Routes[FirstMatch(method, path, "FULL")].endpoint
  ELSE IF FirstMatch(method, path, "PARTIAL") # 0 THEN "405"
  ELSE "404"

\* ----------------------------------------------------------- filesystem
\* The four files certbot keeps in a certificate directory.
PemNames == {"fullchain.pem", "privkey.pem", "cert.pem", "chain.pem"}

\* The certificate directories the model follows: <<account directory,
\* certificate name>>, both as character sequences.  They are written by
\* certbot, never by this program.
LiveKeys == {<<IntToStr(1), <<"c">>>>}

\* What the files may hold.
PemContents == {"A", "B"}

\* What may be found at accounts/<a>/config/live/<n>: nothing, a plain
\* file, or a directory holding some of the four files.
AbsentEntry == [kind |-> "absent", files |-> [f \in PemNames |-> None]]
FileEntry == [kind |-> "file", files |-> [f \in PemNames |-> None]]
DirEntries ==
  {[kind |-> "dir", files |-> fs] :
     fs \in [PemNames -> {None} \cup {Some(c) : c \in PemContents}]}
LiveEntries == {AbsentEntry, FileEntry} \cup DirEntries

\* The entry at APP_DATA / "accounts" / account_id / "config" / "live" / name.
LiveEntry(account_id, name) ==
  IF \E k \in DOMAIN live : Str(k[1]) = account_id /\ Str(k[2]) = name
  THEN live[CHOOSE k \in DOMAIN live : Str(k[1]) = account_id /\ Str(k[2]) = name]
  ELSE AbsentEntry

\* (base / f).exists() and (base / f).read_text()
PemExists(base, f) == base.kind = "dir" /\ base.files[f] # None
PemText(base, f) == base.files[f][1]

\* ------------------------------------------------------ export handlers
\* Lines 267-284.
export_file(account_id, name, which) ==
  LET base == LiveEntry(account_id, name)
      mapping == [w \in {"fullchain", "privkey", "cert", "chain"} |-> w \o ".pem"]
  IN  IF which \notin DOMAIN mapping \/ ~PemExists(base, mapping[which])
      THEN PlainTextResponse("not found", 404, "")
      ELSE FileResponse(PemText(base, mapping[which]),
                        name \o "-" \o which \o ".pem")

\* Lines 286-307.  files is a dict: it is walked in insertion order.
export_bundle_zip(account_id, name) ==
  LET base == LiveEntry(account_id, name)
      files == <<"fullchain.pem", "privkey.pem", "cert.pem", "chain.pem">>
      missing == {i \in 1..Len(files) : ~PemExists(base, files[i])}
      first == CHOOSE i \in missing : \A j \in missing : i <= j
  IN  IF missing # {}
      THEN PlainTextResponse("missing " \o files[first], 404, "")
      ELSE StreamingResponse([i \in 1..Len(files) |-> <<files[i], PemText(base, files[i])>>],
                             name \o "-bundle.zip")

\* Lines 310-320.
export_combined_pem(account_id, name) ==
  LET base == LiveEntry(account_id, name)
  IN  IF ~PemExists(base, "fullchain.pem") \/ ~PemExists(base, "privkey.pem")
      THEN PlainTextResponse("not found", 404, "")
      ELSE PlainTextResponse(
             PemText(base, "fullchain.pem") \o "\n" \o PemText(base, "privkey.pem"),
             200, name \o "-combined.pem")

\* The answer to a request the router hands to an export endpoint, or
\* answers itself when no route takes it.
ServeExport(method, path) ==
  LET endpoint == Dispatch(method, path)
  IN  CASE endpoint = "export_file" -> export_file(path[2], path[3], path[4])
        [] endpoint = "export_bundle_zip" -> export_bundle_zip(path[2], path[3])
        [] endpoint = "export_combined_pem" -> export_combined_pem(path[2], path[3])
        [] endpoint = "405" -> JSONResponse([detail |-> "Method Not Allowed"], 405)
        [] OTHER -> JSONResponse([detail |-> "Not Found"], 404)

\* ------------------------------------------------------------- scanner
\* Code points of the characters directory names are made of.
Chars == <<"0", "1", "2", "3", "4", "5", "6", "7", "8", "9", "a", "b", "c", "d">>
Ord(c) == CHOOSE i \in 1..Len(Chars) : Chars[i] = c

\* s < t for two Python strings.
RECURSIVE StrLess(_, _)
StrLess(s, t) ==
  IF t = <<>> THEN FALSE
  ELSE IF s = <<>> THEN TRUE
  ELSE IF Head(s) # Head(t) THEN Ord(Head(s)) < Ord(Head(t))
  ELSE StrLess(Tail(s), Tail(t))

\* sorted(S) for a set of strings.
RECURSIVE Sorted(_)
Sorted(S) ==
  IF S = {} THEN <<>>
  ELSE LET m == CHOOSE x \in S : \A y \in S \ {x} : StrLess(x, y)
       IN  <<m>> \o Sorted(S \ {m})

\* What one run of "openssl x509 -noout -enddate" may give: an exception
\* (launch failure, timeout) or an exit code and an output.  An output is
\* told by what the code asks of it: whether it holds "notAfter=", the text
\* after it, and the day strptime reads from that text (None: ValueError).
OpensslOutputs ==
  { [notAfter |-> FALSE, date |-> "", day |-> None],
    [notAfter |-> TRUE, date |-> "Jan  1 00:00:00 2030 GMT", day |-> Some(3)],
    [notAfter |-> TRUE, date |-> "garbage", day |-> None] }
OpensslResults ==
  {[raised |-> TRUE, rc |-> 0, stdout |-> [notAfter |-> FALSE, date |-> "", day |-> None]]}
  \cup {[raised |-> FALSE, rc |-> c, stdout |-> o] : c \in {0, 1}, o \in OpensslOutputs}

\* Lines 105-117: expires_str and days_left for one certificate.
Expiry(p, today) ==
  IF ~p.raised /\ p.rc = 0 /\ p.stdout.notAfter
  THEN [expires |-> Some(p.stdout.date),
        days_left |-> IF p.stdout.day = None THEN None
                      ELSE Some(p.stdout.day[1] - today)]
  ELSE [expires |-> None, days_left |-> None]

\* The names under accounts_root: an account directory exists once one of
\* its working directories was made or certbot wrote below it.
AccountDirNames ==
  {IntToStr(d[1]) : d \in dirs} \cup {k[1] : k \in {x \in DOMAIN live : live[x].kind # "absent"}}

\* The names under acc_dir / "config" / "live".
LiveNames(acc) == {k[2] : k \in {x \in DOMAIN live : x[1] = acc /\ live[x].kind # "absent"}}

\* Included without its test of privkey.pem.
IncludedWithoutPrivkey(k) ==
  /\ k \in DOMAIN live
  /\ live[k].kind = "dir"
  /\ PemExists(live[k], "fullchain.pem")
  /\ PemExists(live[k], "cert.pem")

\* Lines 95-103: the certificate directories the scan keeps.
Included(k) ==
  /\ k \in DOMAIN live
  /\ live[k].kind = "dir"
  /\ PemExists(live[k], "fullchain.pem")
  /\ PemExists(live[k], "privkey.pem")
  /\ PemExists(live[k], "cert.pem")

IncludedKeys == {k \in DOMAIN live : Included(k)}

\* ScanLive passing over a certificate whose openssl run raised or exited
\* non-zero.
RECURSIVE ScanLiveSkipFailed(_, _, _, _)
ScanLiveSkipFailed(acc, names, openssl, today) ==
  IF names = <<>> THEN <<>>
  ELSE LET k == <<acc, Head(names)>>
           rest == ScanLiveSkipFailed(acc, Tail(names), openssl, today)
       IN  IF ~Included(k) THEN rest
           ELSE IF openssl[k].raised \/ openssl[k].rc # 0 THEN rest
           ELSE <<[name |-> Str(k[2]),
                   account_id |-> Str(acc),
                   path |-> "/data/accounts/" \o Str(acc) \o "/config/live/" \o Str(k[2]),
                   expires |-> Expiry(openssl[k], today).expires,
                   days_left |-> Expiry(openssl[k], today).days_left]>> \o rest

\* Lines 95-125 for one account directory; names is sorted(live.iterdir()).
RECURSIVE ScanLive(_, _, _, _)
ScanLive(acc, names, openssl, today) ==
  IF names = <<>> THEN <<>>
  ELSE LET k == <<acc, Head(names)>>
           rest == ScanLive(acc, Tail(names), openssl, today)
       IN  IF ~Included(k) THEN rest
           ELSE <<[name |-> Str(k[2]),
                   account_id |-> Str(acc),
                   path |-> "/data/accounts/" \o Str(acc) \o "/config/live/" \o Str(k[2]),
                   expires |-> Expiry(openssl[k], today).expires,
                   days_left |-> Expiry(openssl[k], today).days_left]>> \o rest

\* Lines 87-93; accs is sorted(accounts_root.iterdir()).
RECURSIVE ScanAccounts(_, _, _)
ScanAccounts(accs, openssl, today) ==
  IF accs = <<>> THEN <<>>
  ELSE ScanLive(Head(accs), Sorted(LiveNames(Head(accs))), openssl, today)
       \o ScanAccounts(Tail(accs), openssl, today)

\* Lines 77-127.  openssl gives the result of the openssl run for each
\* certificate directory the scan keeps.
list_live_certs(openssl, today) == ScanAccounts(Sorted(AccountDirNames), openssl, today)

\* ------------------------------------------------------------- requests
\* What the clients send.
Names == {"n"}
Emails == {"a@x"}
Stagings == {0, 1}
Tokens == {"", "s", "t"}
CertNames == {"c"}
AccountIds == 1..(MaxAccounts + 1)
JobIds == 1..(MaxJobs + 1)
DomainInputs ==
  { <<" ">>, <<",", " ", ",">>, <<"a">>, <<"a", ",", " ", "b", " ", ",", ",", "a">> }

\* A worker thread: the endpoint it runs (h), where it is in it (pc), the
\* request's method, path and parameters, and the endpoint's locals (p: what
\* the openssl run gave for each certificate of the scan; utcnow: what
\* datetime.utcnow() gave in the scan).  made is not a
\* local: it records the id of the job row this request inserted.
Idle ==
  [h |-> "", pc |-> "idle", method |-> "", path |-> <<>>,
   account_id |-> 0, domains |-> <<>>, name |-> "", token |-> "",
   doms |-> <<>>, acc |-> None, job_id |-> 0, i |-> 0,
   rc |-> None, out |-> None, err |-> None, status |-> None,
   accounts |-> <<>>, jobs |-> <<>>, p |-> <<>>, utcnow |-> 0, made |-> 0]

Free(r) == req[r].pc = "idle"

\* A request goes to the first worker thread that is free.
Takes(r) == Free(r) /\ \A s \in 1..(r - 1) : ~Free(s)

\* An answered request: what was asked, the job row it inserted (0: none),
\* what its openssl runs and its clock reading gave, and the response.
Answer(q, rsp) ==
  [h |-> q.h, method |-> q.method, path |-> q.path,
   account_id |-> q.account_id, domains |-> q.domains, name |-> q.name,
   token |-> q.token, made |-> q.made, p |-> q.p, utcnow |-> q.utcnow,
   resp |-> rsp]

NoAnswer == Answer(Idle, NoResponse)

\* The working directories of an account, in the order of the dict
\* account_dirs returns.
DirNames == <<"config", "work", "logs">>

\* Lines 65-71: the path of each working directory.
account_dirs(account_id) ==
  [d \in {"config", "work", "logs"} |->
     "/data/accounts/" \o Str(IntToStr(account_id)) \o "/" \o d]

CHALLENGE_WEBROOT == "/var/www/acme-challenges"

\* What one call of run_certbot may give: an exception out of
\* subprocess.run (exc: its class, e: its message), or the exit code and
\* the captured output.
ToolOutcomes ==
  { [raised |-> FALSE, rc |-> 0, stdout |-> "done", stderr |-> "", exc |-> "", e |-> ""],
    [raised |-> FALSE, rc |-> 1, stdout |-> "tried", stderr |-> "error", exc |-> "",
     e |-> ""],
    [raised |-> TRUE, rc |-> 0, stdout |-> "", stderr |-> "",
     exc |-> "FileNotFoundError", e |-> "No such file or directory: 'certbot'"],
    [raised |-> TRUE, rc |-> 0, stdout |-> "", stderr |-> "",
     exc |-> "TimeoutExpired", e |-> "timed out after 1200 seconds"] }

\* The startup hook has run: the tables exist and are empty, nothing has
\* been issued yet.
Init ==
  /\ CRON_TOKEN \in {"", "s"}
  /\ accounts = <<>>
  /\ jobs = <<>>
  /\ dirs = {}
  /\ live = [k \in LiveKeys |-> AbsentEntry]
  /\ invoked = {}
  /\ returned = {}
  /\ now = 0
  /\ req = [r \in Reqs |-> Idle]
  /\ last = NoAnswer

\* ------------------------------------------------------------- database
\* LastRowId counting the rows from zero.
LastRowIdZeroBased(table) == Len(table) - 1

\* cursor.lastrowid after an INSERT into table: the id of the row the
\* statement added.
LastRowId(table) == table[Len(table)].id

\* Rows of table, highest id first (ORDER BY id DESC).
OrderByIdDesc(table) == [i \in 1..Len(table) |-> table[Len(table) + 1 - i]]

\* The first n rows (LIMIT n).
Limit(rows, n) == SubSeq(rows, 1, IF Len(rows) < n THEN Len(rows) ELSE n)

\* SelectById without its WHERE clause: the first row of the table.
SelectByIdAny(table, id) == IF table # <<>> THEN Some(table[1]) ELSE None

\* SELECT * FROM table WHERE id=? ... fetchone(): None or the row.
SelectById(table, id) ==
  IF \E i \in 1..Len(table) : table[i].id = id
  THEN Some(table[CHOOSE i \in 1..Len(table) : table[i].id = id])
  ELSE None

\* NewJob with empty strings, not NULL, in stdout and stderr.
NewJobEmptyOutput(kind, account_id, domains) ==
  [id |-> Len(jobs) + 1, kind |-> kind, status |-> "running",
   created_at |-> now, finished_at |-> None,
   account_id |-> account_id, domains |-> domains,
   stdout |-> Some(""), stderr |-> Some("")]

\* The row an INSERT INTO jobs adds: the id is the next AUTOINCREMENT
\* value, the columns not named are NULL.
NewJob(kind, account_id, domains) ==
  [id |-> Len(jobs) + 1, kind |-> kind, status |-> "running",
   created_at |-> now, finished_at |-> None,
   account_id |-> account_id, domains |-> domains,
   stdout |-> None, stderr |-> None]

\* UpdateJob leaving finished_at as it is.
UpdateJobNoFinished(status, finished_at, out, err, job_id) ==
  [i \in 1..Len(jobs) |->
     IF jobs[i].id = job_id
     THEN [jobs[i] EXCEPT !.status = status, !.stdout = Some(out), !.stderr = Some(err)]
     ELSE jobs[i]]

\* UpdateJob without its WHERE clause: every row is updated.
UpdateJobAllRows(status, finished_at, out, err, job_id) ==
  [i \in 1..Len(jobs) |->
     [jobs[i] EXCEPT !.status = status, !.finished_at = Some(finished_at),
                     !.stdout = Some(out), !.stderr = Some(err)]]

\* UpdateJob with WHERE id = (SELECT MAX(id) FROM jobs): the newest row is
\* updated.
UpdateJobNewest(status, finished_at, out, err, job_id) ==
  [i \in 1..Len(jobs) |->
     IF i = Len(jobs)
     THEN [jobs[i] EXCEPT !.status = status, !.finished_at = Some(finished_at),
                          !.stdout = Some(out), !.stderr = Some(err)]
     ELSE jobs[i]]

\* UPDATE jobs SET status=?, finished_at=?, stdout=?, stderr=? WHERE id=?
UpdateJob(status, finished_at, out, err, job_id) ==
  [i \in 1..Len(jobs) |->
     IF jobs[i].id = job_id
     THEN [jobs[i] EXCEPT !.status = status, !.finished_at = Some(finished_at),
                          !.stdout = Some(out), !.stderr = Some(err)]
     ELSE jobs[i]]

\* Requests that have passed their checks and not yet inserted their row.
Inserting == {r \in Reqs : req[r].pc = "insert"}

\* The jobs table has room for one more row (the bound of the model).
JobsRoom == Len(jobs) + Cardinality(Inserting) < MaxJobs

\* ----------------------------------------------------------- job steps
\* The request r, routed to endpoint h, with its locals unset.
Begin(h, method, path) == [Idle EXCEPT !.h = h, !.method = method, !.path = path]

\* The endpoint run by worker r returns rsp: the worker is free again.
Return(r, q, rsp) ==
  /\ req' = [req EXCEPT ![r] = Idle]
  /\ last' = Answer(q, rsp)

\* The endpoint run by worker r goes on with locals q; nothing is answered
\* in this step.
Goto(r, q) ==
  /\ req' = [req EXCEPT ![r] = q]
  /\ last' = NoAnswer

\* cur.execute("INSERT INTO jobs ..."); job_id = cur.lastrowid;
\* con.commit(), by the request q; the endpoint goes on at pc.
InsertJob(r, q, kind, account_id, domains, pc) ==
  /\ jobs' = Append(jobs, NewJob(kind, account_id, domains))
  /\ Goto(r, [q EXCEPT !.pc = pc, !.i = 1, !.job_id = LastRowId(jobs'),
                          !.made = Len(jobs) + 1])

\* Lines 201-213: the arguments of the issuance.
RECURSIVE DomainArgs(_)
DomainArgs(doms) ==
  IF doms = <<>> THEN <<>> ELSE <<"-d", Str(Head(doms))>> \o DomainArgs(Tail(doms))

\* IssueCmd testing the staging column for truth instead of for 1.
IssueCmdTruthyStaging(acc, account_id, doms) ==
  << "certbot", "certonly",
     "--non-interactive", "--agree-tos", "--no-eff-email",
     "--email", acc.email,
     "--webroot", "-w", CHALLENGE_WEBROOT,
     "--config-dir", account_dirs(account_id)["config"],
     "--work-dir", account_dirs(account_id)["work"],
     "--logs-dir", account_dirs(account_id)["logs"] >>
  \o (IF acc.staging # 0 THEN <<"--staging">> ELSE <<>>)
  \o DomainArgs(doms)

IssueCmd(acc, account_id, doms) ==
  << "certbot", "certonly",
     "--non-interactive", "--agree-tos", "--no-eff-email",
     "--email", acc.email,
     "--webroot", "-w", CHALLENGE_WEBROOT,
     "--config-dir", account_dirs(account_id)["config"],
     "--work-dir", account_dirs(account_id)["work"],
     "--logs-dir", account_dirs(account_id)["logs"] >>
  \o (IF acc.staging = 1 THEN <<"--staging">> ELSE <<>>)
  \o DomainArgs(doms)

\* Lines 242 and 364.
RenewAllCmd == <<"certbot", "renew", "--webroot", "-w", CHALLENGE_WEBROOT>>

\* Line 334.
RenewOneCmd(name) ==
  <<"certbot", "renew", "--cert-name", name, "--webroot", "-w", CHALLENGE_WEBROOT>>

Cmd(q) ==
  CASE q.h = "certs_issue_http" -> IssueCmd(q.acc[1], q.account_id, q.doms)
    [] q.h = "certs_renew_one" -> RenewOneCmd(q.name)
    [] OTHER -> RenewAllCmd

\* The timeout every endpoint passes to run_certbot.
CERTBOT_TIMEOUT == 1200

\* StatusOf testing rc for truth instead of for zero.
StatusOfTruthy(rc) == IF rc # 0 THEN "ok" ELSE "failed"

\* status = "ok" if rc == 0 else "failed"
StatusOf(rc) == IF rc = 0 THEN "ok" ELSE "failed"

\* The message of the except branch: f"Exception: {e}".
ExceptionText(e) == "Exception: " \o e

\* Caught for "except OSError": a timeout is not taken.
CaughtOSError(exc) == exc \in {"FileNotFoundError"}

\* "except Exception" (lines 218, 246, 338, 368) takes every exception
\* subprocess.run raises: they all derive from Exception.
Caught(exc) == exc \in {"FileNotFoundError", "TimeoutExpired"}

\* Unauthorized without the test for an empty configured token.
UnauthorizedMismatch(token) == token # CRON_TOKEN

\* Line 352: not CRON_TOKEN or token != CRON_TOKEN
Unauthorized(token) == CRON_TOKEN = "" \/ token # CRON_TOKEN

\* The locals after the try statement around run_certbot, o being what
\* the call gave.  Only certs_issue_http and certs_renew_all assign rc in
\* the except branch.
AfterTry(q, o) ==
  IF ~o.raised
  THEN [q EXCEPT !.rc = Some(o.rc), !.out = Some(o.stdout), !.err = Some(o.stderr),
                 !.status = Some(StatusOf(o.rc))]
  ELSE [q EXCEPT !.rc = IF q.h \in {"certs_issue_http", "certs_renew_all"}
                        THEN Some(1) ELSE None,
                 !.out = Some(""), !.err = Some(ExceptionText(o.e)),
                 !.status = Some("failed")]

\* What a job endpoint returns once its job is stored.
Envelope(q) ==
  IF q.h = "api_cron_renew"
  THEN JSONResponse([ok |-> TRUE, job_id |-> q.job_id, status |-> q.status[1]], 200)
  ELSE RedirectResponse("/", 303)

\* -------------------------------------------------------------- actions
\* POST /accounts/create, lines 156-164: the row is inserted and committed.
AccountInsert(r, name, email, staging) ==
  /\ Takes(r)
  /\ Len(accounts) < MaxAccounts
  /\ Dispatch("POST", <<"accounts", "create">>) = "accounts_create"
  /\ accounts' = Append(accounts,
                        [id |-> Len(accounts) + 1, name |-> name, email |-> email,
                         staging |-> staging, created_at |-> now])
  /\ Goto(r, [Begin("accounts_create", "POST", <<"accounts", "create">>)
                EXCEPT !.pc = "mkdir", !.i = 1, !.name = name,
                       !.account_id = LastRowId(accounts')])
  /\ now' = now + 1
  /\ UNCHANGED <<CRON_TOKEN, jobs, dirs, live, invoked, returned>>

accounts_create(r) ==
  \E name \in Names, email \in Emails, staging \in Stagings :
    AccountInsert(r, name, email, staging)

\* Mkdir with a loop that stops one directory short.
MkdirOneShort(r) ==
  LET q == req[r] IN
  /\ q.pc = "mkdir"
  /\ dirs' = dirs \cup {<<q.account_id, DirNames[q.i]>>}
  /\ IF q.i < Len(DirNames) - 1 THEN Goto(r, [q EXCEPT !.i = q.i + 1])
     ELSE IF q.h = "accounts_create" THEN Return(r, q, RedirectResponse("/", 303))
     ELSE Goto(r, [q EXCEPT !.pc = "invoke", !.i = 0])
  /\ UNCHANGED <<CRON_TOKEN, accounts, jobs, live, invoked, returned, now>>

\* Lines 167-169 and 197-199: one p.mkdir(parents=True, exist_ok=True) of
\* the loop over dirs.values().  After the last one accounts_create
\* returns and certs_issue_http goes on to build its command.
Mkdir(r) ==
  LET q == req[r] IN
  /\ q.pc = "mkdir"
  /\ dirs' = dirs \cup {<<q.account_id, DirNames[q.i]>>}
  /\ IF q.i < Len(DirNames) THEN Goto(r, [q EXCEPT !.i = q.i + 1])
     ELSE IF q.h = "accounts_create" THEN Return(r, q, RedirectResponse("/", 303))
     ELSE Goto(r, [q EXCEPT !.pc = "invoke", !.i = 0])
  /\ UNCHANGED <<CRON_TOKEN, accounts, jobs, live, invoked, returned, now>>

\* POST /certs/issue_http, lines 178-186: the domains are normalized and
\* the account is looked up; the request is dropped when either is empty.
IssueBegin(r, account_id, domains) ==
  LET q == [Begin("certs_issue_http", "POST", <<"certs", "issue_http">>)
              EXCEPT !.account_id = account_id, !.domains = domains]
      doms == NormalizeDomains(domains)
      acc == SelectById(accounts, account_id)
  IN  /\ Takes(r)
      /\ JobsRoom
      /\ Dispatch("POST", <<"certs", "issue_http">>) = "certs_issue_http"
      /\ IF doms = <<>> THEN Return(r, q, RedirectResponse("/", 303))
         ELSE IF acc = None THEN Return(r, q, RedirectResponse("/", 303))
         ELSE Goto(r, [q EXCEPT !.pc = "insert", !.doms = doms, !.acc = acc])
      /\ UNCHANGED <<CRON_TOKEN, accounts, jobs, dirs, live, invoked, returned, now>>

certs_issue_http(r) ==
  \E account_id \in AccountIds, domains \in DomainInputs :
    IssueBegin(r, account_id, domains)

\* Lines 189-195: the job row of an issuance.
IssueInsert(r) ==
  LET q == req[r] IN
  /\ q.pc = "insert"
  /\ InsertJob(r, q, "issue_http", Some(q.account_id),
               Some(Str(Join(q.doms, " "))), "mkdir")
  /\ now' = now + 1
  /\ UNCHANGED <<CRON_TOKEN, accounts, dirs, live, invoked, returned>>

\* POST /certs/renew_all, lines 233-240.
certs_renew_all(r) ==
  /\ Takes(r)
  /\ JobsRoom
  /\ Dispatch("POST", <<"certs", "renew_all">>) = "certs_renew_all"
  /\ InsertJob(r, Begin("certs_renew_all", "POST", <<"certs", "renew_all">>),
               "renew_all", None, None, "invoke")
  /\ now' = now + 1
  /\ UNCHANGED <<CRON_TOKEN, accounts, dirs, live, invoked, returned>>

\* POST /certs/renew_one, lines 325-332.
certs_renew_one(r) ==
  /\ Takes(r)
  /\ JobsRoom
  /\ Dispatch("POST", <<"certs", "renew_one">>) = "certs_renew_one"
  /\ \E name \in CertNames :
       InsertJob(r, [Begin("certs_renew_one", "POST", <<"certs", "renew_one">>)
                       EXCEPT !.name = name],
                 "renew_one", None, Some(name), "invoke")
  /\ now' = now + 1
  /\ UNCHANGED <<CRON_TOKEN, accounts, dirs, live, invoked, returned>>

\* GET /api/cron/renew, lines 352-362: 401 unless the token is the
\* configured, non-empty one; otherwise the job row is inserted.
api_cron_renew(r) ==
  /\ Takes(r)
  /\ Dispatch("GET", <<"api", "cron", "renew">>) = "api_cron_renew"
  /\ \E token \in Tokens :
       LET q == [Begin("api_cron_renew", "GET", <<"api", "cron", "renew">>)
                   EXCEPT !.token = token]
       IN  IF Unauthorized(token)
           THEN /\ Return(r, q, JSONResponse([ok |-> FALSE, error |-> "unauthorized"], 401))
                /\ UNCHANGED <<jobs, now>>
           ELSE /\ JobsRoom
                /\ InsertJob(r, q, "cron_renew_all", None, None, "invoke")
                /\ now' = now + 1
  /\ UNCHANGED <<CRON_TOKEN, accounts, dirs, live, invoked, returned>>

\* The call of run_certbot (lines 216, 244, 336, 366): subprocess.run is
\* entered with the command built from the locals.
Invoke(r) ==
  LET q == req[r] IN
  /\ q.pc = "invoke"
  /\ invoked' = invoked \cup {[by |-> q.made, args |-> Cmd(q), timeout |-> CERTBOT_TIMEOUT]}
  /\ Goto(r, [q EXCEPT !.pc = "running"])
  /\ UNCHANGED <<CRON_TOKEN, accounts, jobs, dirs, live, returned, now>>

\* run_certbot ends, by returning or by raising, and the try statement
\* around it sets status, out and err.  An exception the except clause
\* does not take leaves the endpoint, and the server answers 500.
ToolReturn(r) ==
  LET q == req[r] IN
  /\ q.pc = "running"
  /\ \E o \in ToolOutcomes :
       /\ returned' = returned \cup {[by |-> q.made, outcome |-> o]}
       /\ IF o.raised /\ ~Caught(o.exc)
          THEN Return(r, q, PlainTextResponse("Internal Server Error", 500, ""))
          ELSE Goto(r, [AfterTry(q, o) EXCEPT !.pc = "finalize"])
  /\ UNCHANGED <<CRON_TOKEN, accounts, jobs, dirs, live, invoked, now>>

\* The UPDATE of the job row and its commit (lines 222-226, 250-254,
\* 342-346, 372-376), then con.close() and the return statement.
Finalize(r) ==
  LET q == req[r] IN
  /\ q.pc = "finalize"
  /\ jobs' = UpdateJob(q.status[1], now, q.out[1], q.err[1], q.job_id)
  /\ Return(r, q, Envelope(q))
  /\ now' = now + 1
  /\ UNCHANGED <<CRON_TOKEN, accounts, dirs, live, invoked, returned>>

\* GET /, lines 138-139: the accounts are read.
home(r) ==
  /\ Takes(r)
  /\ Dispatch("GET", <<>>) = "home"
  /\ Goto(r, [Begin("home", "GET", <<>>)
                EXCEPT !.pc = "home_jobs", !.accounts = OrderByIdDesc(accounts)])
  /\ UNCHANGED <<CRON_TOKEN, accounts, jobs, dirs, live, invoked, returned, now>>

\* The most recent jobs the dashboard shows.
JOBS_LIMIT == 20

\* Line 140: the jobs are read.
HomeJobs(r) ==
  LET q == req[r] IN
  /\ q.pc = "home_jobs"
  /\ Goto(r, [q EXCEPT !.pc = "home_certs",
                       !.jobs = Limit(OrderByIdDesc(jobs), JOBS_LIMIT)])
  /\ UNCHANGED <<CRON_TOKEN, accounts, jobs, dirs, live, invoked, returned, now>>

\* Lines 142-148: the certificates are scanned and the page is rendered.
HomeCerts(r) ==
  LET q == req[r] IN
  /\ q.pc = "home_certs"
  /\ \E openssl \in [IncludedKeys -> OpensslResults] :
       Return(r, [q EXCEPT !.p = openssl, !.utcnow = now],
              TemplateResponse("home.html",
                               [accounts |-> q.accounts, jobs |-> q.jobs,
                                certs |-> list_live_certs(openssl, now)]))
  /\ UNCHANGED <<CRON_TOKEN, accounts, jobs, dirs, live, invoked, returned, now>>

\* GET /jobs/{job_id}, lines 260-265.
job_detail(r) ==
  /\ Takes(r)
  /\ \E job_id \in JobIds :
       LET path == <<"jobs", Str(IntToStr(job_id))>>
           q == Begin("job_detail", "GET", path)
           job == SelectById(jobs, job_id)
       IN  /\ Dispatch("GET", path) = "job_detail"
           /\ IF job = None THEN Return(r, q, RedirectResponse("/", 303))
              ELSE Return(r, q, TemplateResponse("job.html", [job |-> job[1]]))
  /\ UNCHANGED <<CRON_TOKEN, accounts, jobs, dirs, live, invoked, returned, now>>

\* The requests that change the tables or the directories.
Next ==
  \E r \in Reqs :
    \/ accounts_create(r) \/ Mkdir(r)
    \/ certs_issue_http(r) \/ IssueInsert(r)
    \/ certs_renew_all(r) \/ certs_renew_one(r) \/ api_cron_renew(r)
    \/ Invoke(r) \/ ToolReturn(r) \/ Finalize(r)

Spec == Init /\ [][Next]_vars

\* The job requests next to the requests that read the jobs table, on an
\* installation whose accounts have been created.
InitRead ==
  /\ CRON_TOKEN = "s"
  /\ \E email \in Emails, staging \in Stagings :
       accounts = <<[id |-> 1, name |-> "n", email |-> email, staging |-> staging,
                     created_at |-> 0]>>
  /\ jobs = <<>>
  /\ dirs = {<<1, DirNames[i]>> : i \in 1..Len(DirNames)}
  /\ live = [k \in LiveKeys |-> AbsentEntry]
  /\ invoked = {}
  /\ returned = {}
  /\ now = 1
  /\ req = [r \in Reqs |-> Idle]
  /\ last = NoAnswer

NextRead ==
  \E r \in Reqs :
    \/ certs_issue_http(r) \/ IssueInsert(r) \/ Mkdir(r)
    \/ certs_renew_all(r) \/ certs_renew_one(r) \/ api_cron_renew(r)
    \/ Invoke(r) \/ ToolReturn(r) \/ Finalize(r)
    \/ home(r) \/ HomeJobs(r) \/ HomeCerts(r) \/ job_detail(r)

SpecRead == InitRead /\ [][NextRead]_vars

\* ------------------------------------------------------ job properties
Terminal == {"ok", "failed"}

\* The step just taken answered a request routed to endpoint h.
Answered(h) == last.h = h /\ last.resp.kind # "none"

\* A job row as it may be read: its status is one of the three, finished_at
\* is set exactly when the status is terminal, and a terminal status is
\* only there once the job's run_certbot call has ended.
RowConsistent(j) ==
  /\ j.status \in {"running"} \cup Terminal
  /\ j.finished_at # None <=> j.status \in Terminal
  /\ j.status \in Terminal => \E x \in returned : x.by = j.id

\* The job rows a reader holds or has just been answered with.
AnsweredRows ==
  IF Answered("home") THEN last.resp.ctx[1].jobs
  ELSE IF Answered("job_detail") /\ last.resp.kind = "html" THEN <<last.resp.ctx[1].job>>
  ELSE <<>>

\* C1: in the jobs table, and in every row home or job_detail reads while
\* job requests run, finished_at is set if and only if the status is ok or
\* failed.
C1_FinishedIffTerminal ==
  /\ \A i \in 1..Len(jobs) : RowConsistent(jobs[i])
  /\ \A r \in Reqs : \A i \in 1..Len(req[r].jobs) : RowConsistent(req[r].jobs[i])
  /\ \A i \in 1..Len(AnsweredRows) : RowConsistent(AnsweredRows[i])

\* The dashboard is answered with a running job next to a finished one.
C1_Witness ==
  /\ Answered("home")
  /\ \E i, k \in 1..Len(AnsweredRows) :
       /\ AnsweredRows[i].status = "running" /\ AnsweredRows[i].finished_at = None
       /\ AnsweredRows[k].status \in Terminal /\ AnsweredRows[k].finished_at # None

\* C2: a job's status only changes from running to ok or failed, and a row
\* whose status is ok or failed is never changed again; kind, account_id,
\* domains and created_at of a row never change, and no row is removed.
C2_TerminalImmutable ==
  [][ /\ Len(jobs') >= Len(jobs)
      /\ \A i \in 1..Len(jobs) :
           /\ jobs'[i].id = jobs[i].id
           /\ jobs'[i].kind = jobs[i].kind
           /\ jobs'[i].account_id = jobs[i].account_id
           /\ jobs'[i].domains = jobs[i].domains
           /\ jobs'[i].created_at = jobs[i].created_at
           /\ jobs[i].status \in Terminal => jobs'[i] = jobs[i]
           /\ jobs'[i].status # jobs[i].status =>
                jobs[i].status = "running" /\ jobs'[i].status \in Terminal ]_vars

\* Two requests ran at the same time and both their jobs are finished, the
\* second one after the first.
C2_Witness ==
  /\ Len(jobs) = 2
  /\ jobs[1].status \in Terminal
  /\ jobs[2].status \in Terminal
  /\ jobs[1].finished_at[1] > jobs[2].created_at
  /\ jobs[1].finished_at[1] < jobs[2].finished_at[1]

\* C3: whenever a job row refers to an account, the three working
\* directories of that account exist.
C3_DirsBeforeJobAccepted ==
  \A i \in 1..Len(jobs) :
    jobs[i].account_id # None =>
      \A k \in 1..Len(DirNames) : <<jobs[i].account_id[1], DirNames[k]>> \in dirs

\* The domain input holds nothing but commas and whitespace.
NoDomain(domains) == \A i \in 1..Len(domains) : domains[i] \in Whitespace \cup {","}

\* No row of the accounts table has this id.
NoAccount(account_id) == \A i \in 1..Len(accounts) : accounts[i].id # account_id

\* C4: the step that answers an issuance request whose domain input holds
\* no domain, or whose account_id matches no account, answers with a
\* redirect to /; the request has inserted no job row, and the step changes
\* neither the tables nor the directories nor the calls of the tool.
C4_IssuanceDiscarded ==
  [][ ( /\ last'.h = "certs_issue_http"
        /\ last'.resp.kind # "none"
        /\ NoDomain(last'.domains) \/ NoAccount(last'.account_id) )
      => /\ last'.resp = RedirectResponse("/", 303)
         /\ last'.made = 0
         /\ jobs' = jobs
         /\ accounts' = accounts
         /\ dirs' = dirs
         /\ invoked' = invoked ]_vars

\* An issuance for an account that does not exist, with a valid domain and
\* next to an account that does exist, has been answered.
C4_Witness ==
  /\ Answered("certs_issue_http")
  /\ ~NoDomain(last.domains)
  /\ NoAccount(last.account_id)
  /\ accounts # <<>>
  /\ last.resp.code = 303

\* C5: the step that answers a cron request while the configured token is
\* empty, or differs from the token sent, answers 401 with {ok: false,
\* error: unauthorized}; the request has inserted no job row and the step
\* changes neither the jobs table nor the calls of the tool.
C5_CronUnauthorized ==
  [][ ( /\ last'.h = "api_cron_renew"
        /\ last'.resp.kind # "none"
        /\ CRON_TOKEN = "" \/ last'.token # CRON_TOKEN )
      => /\ last'.resp = JSONResponse([ok |-> FALSE, error |-> "unauthorized"], 401)
         /\ last'.made = 0
         /\ jobs' = jobs
         /\ invoked' = invoked ]_vars

\* No token is configured and the request sends the empty token.
C5_Witness ==
  /\ Answered("api_cron_renew")
  /\ CRON_TOKEN = ""
  /\ last.token = ""
  /\ last.resp.code = 401

\* C6: a cron request with the configured, non-empty token is answered
\* with ok = true, the id of the cron_renew_all row this request inserted
\* and the terminal status stored in that row.
C6_CronJobId ==
  (Answered("api_cron_renew") /\ CRON_TOKEN # "" /\ last.token = CRON_TOKEN) =>
    /\ last.resp.kind = "json"
    /\ last.resp.code = 200
    /\ last.resp.json[1].ok = TRUE
    /\ last.made \in 1..Len(jobs)
    /\ last.resp.json[1].job_id = last.made
    /\ jobs[last.made].kind = "cron_renew_all"
    /\ jobs[last.made].status \in Terminal
    /\ last.resp.json[1].status = jobs[last.made].status

\* The cron request is answered after another request has inserted a row
\* behind its own.
C6_Witness ==
  /\ Answered("api_cron_renew")
  /\ last.resp.code = 200
  /\ last.made = 1
  /\ Len(jobs) = 2

\* What the run_certbot call of job id gave (one call per job).
OutcomeOf(id) == (CHOOSE x \in returned : x.by = id).outcome

\* C7: a finished job is ok exactly when its run_certbot call returned
\* with exit code zero; the row of a call that returned holds the captured
\* stdout and stderr; the row of a call that raised is failed, with an
\* empty stdout and "Exception: " and the message as stderr.
C7_StatusFromOutcome ==
  \A i \in 1..Len(jobs) :
    jobs[i].status \in Terminal =>
      /\ Cardinality({x \in returned : x.by = i}) = 1
      /\ jobs[i].status = "ok" <=> (~OutcomeOf(i).raised /\ OutcomeOf(i).rc = 0)
      /\ ~OutcomeOf(i).raised =>
           /\ jobs[i].stdout = Some(OutcomeOf(i).stdout)
           /\ jobs[i].stderr = Some(OutcomeOf(i).stderr)
      /\ OutcomeOf(i).raised =>
           /\ jobs[i].status = "failed"
           /\ jobs[i].stdout = Some("")
           /\ jobs[i].stderr = Some("Exception: " \o OutcomeOf(i).e)

\* A cron job whose call timed out next to an issuance that succeeded.
C7_Witness ==
  \E i, k \in 1..Len(jobs) :
    /\ jobs[i].kind = "cron_renew_all" /\ jobs[i].status = "failed"
    /\ jobs[i].stdout = Some("") /\ OutcomeOf(i).exc = "TimeoutExpired"
    /\ jobs[k].kind = "issue_http" /\ jobs[k].status = "ok"

ExportAccountIds == {"1", "2"}
ExportNames == {"c", "x"}
ExportWhich ==
  {"fullchain", "privkey", "cert", "chain", "bundle.zip", "combined.pem", "other"}

\* GET (or POST) /export/{account_id}/{name}/{...}: the router picks the
\* endpoint, which reads the files and answers.
Export(r) ==
  /\ Takes(r)
  /\ \E method \in {"GET", "POST"}, a \in ExportAccountIds, n \in ExportNames,
        w \in ExportWhich :
       LET path == <<"export", a, n, w>>
       IN  Return(r, Begin(Dispatch(method, path), method, path),
                  ServeExport(method, path))
  /\ UNCHANGED <<CRON_TOKEN, accounts, jobs, dirs, live, invoked, returned, now>>

\* certbot, or the administrator, changes what is found at a certificate
\* directory.
CertbotWrites ==
  /\ \E k \in DOMAIN live, e \in LiveEntries : live' = [live EXCEPT ![k] = e]
  /\ last' = NoAnswer
  /\ UNCHANGED <<CRON_TOKEN, accounts, jobs, dirs, invoked, returned, now, req>>

InitExport ==
  /\ CRON_TOKEN = ""
  /\ accounts = <<>>
  /\ jobs = <<>>
  /\ dirs = {}
  /\ live \in [LiveKeys -> LiveEntries]
  /\ invoked = {}
  /\ returned = {}
  /\ now = 0
  /\ req = [r \in Reqs |-> Idle]
  /\ last = NoAnswer

NextExport == (\E r \in Reqs : Export(r)) \/ CertbotWrites

SpecExport == InitExport /\ [][NextExport]_vars

\* The answered request is a GET of /export/{account_id}/{name}/{which}
\* with this last segment.
ExportAnswered(which) ==
  /\ last.method = "GET"
  /\ Len(last.path) = 4
  /\ last.path[1] = "export"
  /\ last.path[4] = which

\* C9: a GET of /export/{account_id}/{name}/combined.pem is answered with
\* the content of fullchain.pem, a newline and the content of privkey.pem,
\* as attachment {name}-combined.pem, when both files exist, and with 404
\* when one of them is missing.
C9_CombinedPemServed ==
  ExportAnswered("combined.pem") =>
    LET base == LiveEntry(last.path[2], last.path[3])
    IN  IF PemExists(base, "fullchain.pem") /\ PemExists(base, "privkey.pem")
        THEN last.resp =
               PlainTextResponse(
                 PemText(base, "fullchain.pem") \o "\n" \o PemText(base, "privkey.pem"),
                 200, last.path[3] \o "-combined.pem")
        ELSE last.resp.code = 404

\* C10: a GET of /export/{account_id}/{name}/bundle.zip is answered with a
\* zip archive of the four files fullchain.pem, privkey.pem, cert.pem and
\* chain.pem when all four exist, and otherwise with 404 and a message
\* naming the first missing file in that order.
C10_BundleZipServed ==
  ExportAnswered("bundle.zip") =>
    LET base == LiveEntry(last.path[2], last.path[3])
        files == <<"fullchain.pem", "privkey.pem", "cert.pem", "chain.pem">>
        missing == {i \in 1..4 : ~PemExists(base, files[i])}
    IN  IF missing = {}
        THEN /\ last.resp.kind = "zip"
             /\ last.resp.code = 200
             /\ last.resp.entries = [i \in 1..4 |-> <<files[i], PemText(base, files[i])>>]
        ELSE /\ last.resp.code = 404
             /\ last.resp.text =
                  "missing " \o files[CHOOSE i \in missing : \A j \in missing : i <= j]

\* ------------------------------------------------------------- scanner
\* The dashboard next to certbot's files.  The certificate directories
\* followed here, both under account directory 1.
ScanKeys == {<<IntToStr(1), <<"c">>>>, <<IntToStr(1), <<"d">>>>}

\* What is found at each of them: nothing, a plain file, or a directory
\* holding any of the four files.
ScanEntries ==
  {AbsentEntry, FileEntry}
  \cup {[kind |-> "dir", files |-> fs] : fs \in [PemNames -> {None, Some("A")}]}

\* The clock is followed up to this reading.
MaxClock == 1

\* Time passes; no endpoint runs, the last answer stands.
Tick ==
  /\ now < MaxClock
  /\ now' = now + 1
  /\ UNCHANGED <<CRON_TOKEN, accounts, jobs, dirs, live, invoked, returned, req, last>>

\* certbot, or the administrator, changes what is found at a certificate
\* directory of the dashboard's scan.
ScanWrites ==
  /\ \E k \in DOMAIN live, e \in ScanEntries : live[k] # e /\ live' = [live EXCEPT ![k] = e]
  /\ last' = NoAnswer
  /\ UNCHANGED <<CRON_TOKEN, accounts, jobs, dirs, invoked, returned, now, req>>

InitScan ==
  /\ CRON_TOKEN = "s"
  /\ accounts = <<[id |-> 1, name |-> "n", email |-> "a@x", staging |-> 1,
                   created_at |-> 0]>>
  /\ jobs = <<>>
  /\ dirs = {<<1, DirNames[i]>> : i \in 1..Len(DirNames)}
  /\ live \in [ScanKeys -> ScanEntries]
  /\ invoked = {}
  /\ returned = {}
  /\ now = 0
  /\ req = [r \in Reqs |-> Idle]
  /\ last = NoAnswer

NextScan ==
  \/ \E r \in Reqs : home(r) \/ HomeJobs(r) \/ HomeCerts(r)
  \/ Tick
  \/ ScanWrites

SpecScan == InitScan /\ [][NextScan]_vars

\* ---------------------------------------------------- scanner properties
\* The certificate listing of the dashboard just answered.
Certs == last.resp.ctx[1].certs

\* The entries of the listing for certificate directory k.
EntriesOf(k) ==
  {i \in 1..Len(Certs) : Certs[i].account_id = Str(k[1]) /\ Certs[i].name = Str(k[2])}

\* k is a directory in which fullchain.pem, privkey.pem and cert.pem exist.
HasThreeFiles(k) ==
  /\ live[k].kind = "dir"
  /\ \A f \in {"fullchain.pem", "privkey.pem", "cert.pem"} : live[k].files[f] # None

\* C11: the dashboard is answered without error, and its certificate
\* listing holds one entry for a certificate directory if and only if that
\* is a directory holding fullchain.pem, privkey.pem and cert.pem, whether
\* chain.pem is there or not, and no other entry.
C11_ListedIffThreeFiles ==
  Answered("home") =>
    /\ last.resp.code = 200
    /\ \A k \in DOMAIN live :
         Cardinality(EntriesOf(k)) = IF HasThreeFiles(k) THEN 1 ELSE 0
    /\ Len(Certs) = Cardinality({k \in DOMAIN live : HasThreeFiles(k)})

\* Directory c lacks privkey.pem only and is skipped; directory d, without
\* chain.pem, is the one entry of the listing.
C11_Witness ==
  /\ Answered("home")
  /\ DOMAIN live = ScanKeys
  /\ live[<<IntToStr(1), <<"c">>>>].kind = "dir"
  /\ live[<<IntToStr(1), <<"c">>>>].files =
       [f \in PemNames |-> IF f = "privkey.pem" THEN None ELSE Some("A")]
  /\ live[<<IntToStr(1), <<"d">>>>].files["chain.pem"] = None
  /\ Len(Certs) = 1
  /\ Certs[1].name = "d"

\* The openssl run for certificate directory k gave an end date that
\* strptime reads.
InspectionSucceeded(k) ==
  /\ ~last.p[k].raised
  /\ last.p[k].rc = 0
  /\ last.p[k].stdout.notAfter
  /\ last.p[k].stdout.day # None

\* C12: every certificate the scan keeps is listed, whatever its openssl
\* run gave; expires and days_left are both set when the run gave an end
\* date that can be read, and both null when it failed to launch, timed
\* out, exited non-zero or gave an output without a readable end date.
C12_NullUnlessInspected ==
  Answered("home") =>
    \A k \in DOMAIN last.p :
      /\ Cardinality(EntriesOf(k)) = 1
      /\ \A i \in EntriesOf(k) :
           IF InspectionSucceeded(k)
           THEN Certs[i].expires # None /\ Certs[i].days_left # None
           ELSE Certs[i].expires = None /\ Certs[i].days_left = None

\* -------------------------------------------------- domain normalization
\* Issuance requests with any domains field: every string of at most
\* MaxDomainsLen of these characters.
MaxDomainsLen == 5
FormChars == {"a", ",", " ", "\t"}
FormInputs == UNION {[1..n -> FormChars] : n \in 0..MaxDomainsLen}

\* POST /certs/issue_http for an account of the table, with such a domains
\* field.
IssueAnyDomains(r) ==
  \E account_id \in {accounts[i].id : i \in 1..Len(accounts)}, domains \in FormInputs :
    IssueBegin(r, account_id, domains)

\* Account 1 exists with its directories, and the jobs table holds finished
\* renewals, with room for one more job.
InitNorm ==
  /\ CRON_TOKEN = "s"
  /\ accounts = <<[id |-> 1, name |-> "n", email |-> "a@x", staging |-> 1,
                   created_at |-> 0]>>
  /\ jobs = [i \in 1..(MaxJobs - 1) |->
               [id |-> i, kind |-> "renew_all", status |-> "ok",
                created_at |-> 2 * i - 1, finished_at |-> Some(2 * i),
                account_id |-> None, domains |-> None,
                stdout |-> Some("done"), stderr |-> Some("")]]
  /\ dirs = {<<1, DirNames[i]>> : i \in 1..Len(DirNames)}
  /\ live = [k \in LiveKeys |-> AbsentEntry]
  /\ invoked = {[by |-> i, args |-> RenewAllCmd, timeout |-> CERTBOT_TIMEOUT] :
                  i \in 1..(MaxJobs - 1)}
  /\ returned = {[by |-> i, outcome |-> CHOOSE o \in ToolOutcomes : ~o.raised /\ o.rc = 0] :
                   i \in 1..(MaxJobs - 1)}
  /\ now = 2 * MaxJobs - 1
  /\ req = [r \in Reqs |-> Idle]
  /\ last = NoAnswer

NextNorm ==
  \E r \in Reqs :
    \/ IssueAnyDomains(r) \/ IssueInsert(r) \/ Mkdir(r)
    \/ Invoke(r) \/ ToolReturn(r) \/ Finalize(r)

SpecNorm == InitNorm /\ [][NextNorm]_vars

\* A comma or a whitespace character.
Separator(c) == c = "," \/ c \in Whitespace

\* Where the maximal runs of non-separators of s start, and where the run
\* that starts at i ends.
RunStarts(s) == {i \in 1..Len(s) : ~Separator(s[i]) /\ (i = 1 \/ Separator(s[i - 1]))}
RunEnd(s, i) ==
  CHOOSE j \in i..Len(s) :
    /\ \A m \in i..j : ~Separator(s[m])
    /\ j = Len(s) \/ Separator(s[j + 1])

\* The k-th run start from the left.
NthStart(s, k) ==
  CHOOSE i \in RunStarts(s) : Cardinality({j \in RunStarts(s) : j < i}) = k - 1

\* The maximal runs of non-separators of s, in the order of s.
Runs(s) ==
  [k \in 1..Cardinality(RunStarts(s)) |-> SubSeq(s, NthStart(s, k), RunEnd(s, NthStart(s, k)))]

\* The tokens with one space between each two.
RECURSIVE Spaced(_)
Spaced(tokens) ==
  IF tokens = <<>> THEN ""
  ELSE IF Len(tokens) = 1 THEN Str(tokens[1])
  ELSE Str(tokens[1]) \o " " \o Spaced(Tail(tokens))

\* C13: the domains an issuance request goes on with are the maximal runs
\* of characters of its domains field that are neither commas nor
\* whitespace, in the order of the field, duplicates kept; none is empty or
\* holds a comma or whitespace; the domains column of the job row the
\* request inserts holds them with one space between each two.
C13_DomainsNormalized ==
  \A r \in Reqs :
    (req[r].h = "certs_issue_http" /\ req[r].pc # "idle") =>
      /\ req[r].doms = Runs(req[r].domains)
      /\ \A k \in 1..Len(req[r].doms) :
           /\ req[r].doms[k] # <<>>
           /\ \A m \in 1..Len(req[r].doms[k]) : ~Separator(req[r].doms[k][m])
      /\ req[r].made # 0 =>
           jobs[req[r].made].domains = Some(Spaced(Runs(req[r].domains)))

\* The field "aa,,a" has given the job row "aa a".
C13_Witness ==
  \E r \in Reqs :
    /\ req[r].domains = <<"a", "a", ",", ",", "a">>
    /\ req[r].made # 0
    /\ jobs[req[r].made].domains = Some("aa a")
    /\ jobs[req[r].made].status = "running"

\* ------------------------------------------------- dashboard idempotence
\* Two dashboards answered one after the other: the step answers GET /
\* while the answer to the GET / before it stands, so that no table and no
\* certificate file changed between the two.
TwoDashboards ==
  /\ last.h = "home" /\ last.resp.kind = "html"
  /\ last'.h = "home" /\ last'.resp.kind = "html"
  /\ last' # last

\* A step of GET /.
DashboardStep ==
  \E r \in Reqs : req'[r] # req[r] /\ (req[r].h = "home" \/ req'[r].h = "home")

\* A certificate entry without what the openssl run and the clock decide.
Identity(c) == [name |-> c.name, account_id |-> c.account_id, path |-> c.path]

\* C14 as stated: two dashboards with no change between them show the
\* same accounts, jobs and certificates, expires and days_left included,
\* and a step of the dashboard changes no table, directory or file.
C14_SameDashboardTwice ==
  [][ /\ TwoDashboards => last'.resp.ctx = last.resp.ctx
      /\ DashboardStep =>
           /\ accounts' = accounts /\ jobs' = jobs
           /\ dirs' = dirs /\ live' = live ]_vars

\* C14, amended: two dashboards with no change between them show the same
\* accounts and jobs and the same certificates (name, account_id, path) in
\* the same order; expires and days_left are the same too when the openssl
\* runs gave the same and the clock read the same in both; a step of the
\* dashboard changes no table, directory or file.
C14_SameDashboardTwiceGivenToolAndClock ==
  [][ /\ TwoDashboards =>
           /\ last'.resp.ctx[1].accounts = last.resp.ctx[1].accounts
           /\ last'.resp.ctx[1].jobs = last.resp.ctx[1].jobs
           /\ Len(last'.resp.ctx[1].certs) = Len(last.resp.ctx[1].certs)
           /\ \A i \in 1..Len(last.resp.ctx[1].certs) :
                Identity(last'.resp.ctx[1].certs[i]) = Identity(last.resp.ctx[1].certs[i])
           /\ (last'.p = last.p /\ last'.utcnow = last.utcnow) =>
                last'.resp.ctx = last.resp.ctx
      /\ DashboardStep =>
           /\ accounts' = accounts /\ jobs' = jobs
           /\ dirs' = dirs /\ live' = live ]_vars

\* A dashboard is answered after the clock has moved: it shows days_left 2
\* for one certificate and no expiry for the other, whose openssl run
\* failed, while a second dashboard is about to scan the same files.
C14_Witness ==
  /\ Answered("home")
  /\ last.utcnow = 1
  /\ Len(Certs) = 2
  /\ Certs[1].days_left = Some(2)
  /\ Certs[2].expires = None
  /\ \E r \in Reqs : req[r].pc = "home_certs"

\* ------------------------------------------------------------- crashes
\* The process dies while requests are running: their threads and locals
\* are gone, nothing is answered.  What was committed to the database and
\* made on disk stays, and the restarted process only creates the tables if
\* they are missing (lines 32-62).
Crash ==
  /\ \E r \in Reqs : ~Free(r)
  /\ req' = [r \in Reqs |-> Idle]
  /\ last' = NoAnswer
  /\ UNCHANGED <<CRON_TOKEN, accounts, jobs, dirs, live, invoked, returned, now>>

NextCrash == Next \/ Crash

SpecCrash == Init /\ [][NextCrash]_vars

\* The row of job id is as it was inserted: running, nothing else set.
RunningRow(id) ==
  /\ id \in 1..Len(jobs)
  /\ jobs[id].status = "running"
  /\ jobs[id].finished_at = None
  /\ jobs[id].stdout = None
  /\ jobs[id].stderr = None

\* C15: a call of the tool only starts for a job whose row is already in
\* the table, running, with finished_at, stdout and stderr null; and from
\* then on, crash or not, that row is there, running and with these nulls
\* until the call has ended and its result is stored.
C15_RowBeforeInvocation ==
  /\ [][\A x \in invoked' \ invoked : RunningRow(x.by)]_vars
  /\ [](\A x \in invoked :
          \/ RunningRow(x.by)
          \/ /\ x.by \in 1..Len(jobs)
             /\ jobs[x.by].status \in Terminal
             /\ \E y \in returned : y.by = x.by)

\* The process crashed while the tool was running for job 1: no thread is
\* left, the call never ended, and the row is there, running.
C15_Witness ==
  /\ \A r \in Reqs : Free(r)
  /\ \E x \in invoked : x.by = 1
  /\ \A y \in returned : y.by # 1
  /\ RunningRow(1)
  /\ jobs[1].kind = "issue_http"

\* ------------------------------------------------------ failing mkdir
\* Lines 167-169 and 197-199: p.mkdir(parents=True, exist_ok=True) raises
\* OSError (the volume is read-only or full, or a plain file is in the
\* way).  Neither loop is inside a try statement: the exception leaves the
\* endpoint and the server answers 500.
MkdirFails(r) ==
  LET q == req[r] IN
  /\ q.pc = "mkdir"
  /\ Return(r, q, PlainTextResponse("Internal Server Error", 500, ""))
  /\ UNCHANGED <<CRON_TOKEN, accounts, jobs, dirs, live, invoked, returned, now>>

NextFault == Next \/ \E r \in Reqs : MkdirFails(r)

SpecFault == Init /\ [][NextFault]_vars

\* C16: no request ends leaving the job row it inserted in status running,
\* and, the process not crashing, every running row belongs to a request
\* that is still at work and will update it.
C16_OwnJobFinished ==
  /\ (last.resp.kind # "none" /\ last.made # 0) => jobs[last.made].status \in Terminal
  /\ \A i \in 1..Len(jobs) :
       jobs[i].status = "running" => \E r \in Reqs : ~Free(r) /\ req[r].made = i

\* C17: for every call of the tool made for an issuance job, the config,
\* work and logs directories of the job's account exist.
C17_DirsBeforeInvocation ==
  \A x \in invoked :
    jobs[x.by].kind = "issue_http" =>
      \A d \in {"config", "work", "logs"} : <<jobs[x.by].account_id[1], d>> \in dirs

\* The tool runs for an issuance for account 1 while the request that
\* creates account 1 has not made its first directory yet: the three
\* directories were made by the issuing request.
C17_Witness ==
  /\ \E x \in invoked : jobs[x.by].kind = "issue_http" /\ jobs[x.by].account_id = Some(1)
  /\ \E r \in Reqs : req[r].h = "accounts_create" /\ req[r].pc = "mkdir" /\ req[r].i = 1
                     /\ req[r].account_id = 1

\* ------------------------------------------------- issuance arguments
\* Account forms with any integer in the staging field (line 154 takes an
\* int, line 159 stores int(staging)) and one of two emails.
FormStagings == {-1, 0, 1, 2}
FormEmails == {"a@x", "b@y"}

\* POST /accounts/create with such a form.
CreateAnyStaging(r) ==
  \E name \in Names, email \in FormEmails, staging \in FormStagings :
    AccountInsert(r, name, email, staging)

\* Accounts are created and certificates issued for them.
NextArgs ==
  \E r \in Reqs :
    \/ CreateAnyStaging(r) \/ Mkdir(r)
    \/ certs_issue_http(r) \/ IssueInsert(r)
    \/ Invoke(r) \/ ToolReturn(r) \/ Finalize(r)

SpecArgs == Init /\ [][NextArgs]_vars

\* The arguments that follow the option opt in args, in order.
ValuesOf(args, opt) ==
  LET at == {i \in 1..(Len(args) - 1) : args[i] = opt}
      nth(k) == CHOOSE i \in at : Cardinality({j \in at : j < i}) = k - 1
  IN  [k \in 1..Cardinality(at) |-> args[nth(k) + 1]]

\* Strings with one space between each two.
RECURSIVE SpacedStrings(_)
SpacedStrings(xs) ==
  IF xs = <<>> THEN ""
  ELSE IF Len(xs) = 1 THEN xs[1]
  ELSE xs[1] \o " " \o SpacedStrings(Tail(xs))

\* The row of the accounts table an issuance job refers to.
AccountOf(job) == accounts[CHOOSE i \in 1..Len(accounts) : accounts[i].id = job.account_id[1]]

CallsFor(id) == {x \in invoked : x.by = id}
ResultsFor(id) == {y \in returned : y.by = id}

\* C19: a step that writes to an existing job row is the last step of the
\* request that inserted that row and writes to no other row; one call of
\* the tool was started for the row, by that request, and the status,
\* stdout and stderr written are those of that call.
C19_OwnResultInOwnRow ==
  [][ \A i \in 1..Len(jobs) :
        jobs'[i] # jobs[i] =>
          /\ \E r \in Reqs :
               /\ req[r].made = i
               /\ req[r].pc = "finalize"
               /\ req'[r] = Idle
               /\ \A s \in Reqs \ {r} : req'[s] = req[s]
          /\ \A k \in 1..Len(jobs) : k # i => jobs'[k] = jobs[k]
          /\ Cardinality(CallsFor(i)) = 1
          /\ Cardinality(ResultsFor(i)) = 1
          /\ \A y \in ResultsFor(i) :
               IF y.outcome.raised
               THEN /\ jobs'[i].status = "failed"
                    /\ jobs'[i].stdout = Some("")
                    /\ jobs'[i].stderr = Some("Exception: " \o y.outcome.e)
               ELSE /\ jobs'[i].status = (IF y.outcome.rc = 0 THEN "ok" ELSE "failed")
                    /\ jobs'[i].stdout = Some(y.outcome.stdout)
                    /\ jobs'[i].stderr = Some(y.outcome.stderr) ]_vars

\* Two requests ran their calls at the same time; the first job's call
\* failed and ended last, the second job's call succeeded: each row holds
\* the result of its own call.
C19_Witness ==
  /\ Len(jobs) = 2
  /\ jobs[1].status = "failed" /\ jobs[1].stdout = Some("tried")
  /\ jobs[2].status = "ok" /\ jobs[2].stdout = Some("done")
  /\ jobs[2].created_at < jobs[2].finished_at[1]
  /\ jobs[2].finished_at[1] < jobs[1].finished_at[1]

====
